---- MODULE Spec2Model ----
(***************************************************************************)
(* Model of src/main.py: the Inkbunny downloader.  One sequential program  *)
(* (main) drives login -> user lookup -> page loop -> per-submission file   *)
(* loop -> download_file.  Every network call is one step whose outcome     *)
(* the environment chooses; the remote gallery is fixed in the initial      *)
(* state, the disk persists from one run of main to the next.               *)
(***************************************************************************)
EXTENDS Integers, Sequences, FiniteSets, TLC

\* ------------------------------------------------------------------ bounds
\* Largest page number the remote gallery is given content for; the
\* pages_count it reports may exceed it by one.
MaxPages == 2

\* Longest title of which every spelling over TitleChars is tried.
MaxTitle == 3

\* --------------------------------------------------------- program constants
retry_count == 3
retry_delay == 5
TitleCut == 50

\* api.delay as get_config_path writes it to a new config.json.
delay == [between_files |-> 1, between_pages |-> 2]

\* The asyncio.sleep call a step made: which delay, and its length.
Sleep(what, secs) == [what |-> what, secs |-> secs]
NoSleep == Sleep("none", 0)

\* Python's None, and the values the remote hands out.
None == "None"
Sid == "sid"
EmptySid == ""
Uid == "uid"

\* ------------------------------------------------------------ configuration
\* A configuration is the set of key paths present in config.json.
required_fields ==
  [api |-> <<"base_url", "submissions_per_page", "submission_types", "delay">>,
   credentials |-> <<"username", "password">>,
   download |-> <<"artist_username", "save_directory">>]

Sections == <<"api", "credentials", "download">>

DelayKeys == {"between_files", "between_pages"}

Range(s) == {s[i] : i \in DOMAIN s}

FullConfig ==
  {<<s>> : s \in Range(Sections)}
    \cup UNION {{<<s, f>> : f \in Range(required_fields[s])} : s \in Range(Sections)}
    \cup {<<"api", "delay", k>> : k \in DelayKeys}

\* The keys of a config.json that hold a string or a number.
Leaves == UNION {{<<s, f>> : f \in Range(required_fields[s]) \ {"delay"}} :
                   s \in Range(Sections)}

\* Every config.json: a key is present only inside a section that is.
Configs ==
  {c \in SUBSET FullConfig :
     \A q \in c : \A n \in 1..Len(q) : SubSeq(q, 1, n) \in c}

\* validate_config with the delay check left out.
validate_config_nodelay(config) ==
  \A i \in DOMAIN Sections :
     /\ <<Sections[i]>> \in config
     /\ \A j \in DOMAIN required_fields[Sections[i]] :
          <<Sections[i], required_fields[Sections[i]][j]>> \in config

\* ConfigValidator.validate_config: TRUE iff no ValueError is raised.
validate_config(config) ==
  /\ \A i \in DOMAIN Sections :
       /\ <<Sections[i]>> \in config
       /\ \A j \in DOMAIN required_fields[Sections[i]] :
            <<Sections[i], required_fields[Sections[i]][j]>> \in config
  /\ ~(\/ <<"api", "delay", "between_files">> \notin config
       \/ <<"api", "delay", "between_pages">> \notin config)

\* ------------------------------------------------------------ JSON helpers
\* dict.get(key, default)
Get(d, k, default) == IF k \in DOMAIN d THEN d[k] ELSE default

\* ----------------------------------------------------------- file names
\* The characters in use for which str.isalnum() is true.
Alnum == {"a", "b", "x", "y", "z", "u", "n", "t", "i", "l", "e", "d",
          "F", "o", "B", "r", "7"}

Keep(c) == c \in Alnum \/ c \in {" ", "-", "_"}

RECURSIVE Filter(_)
Filter(s) ==
  IF s = <<>> THEN <<>>
  ELSE IF Keep(Head(s)) THEN <<Head(s)>> \o Filter(Tail(s))
  ELSE Filter(Tail(s))

Take(s, n) == IF Len(s) <= n THEN s ELSE SubSeq(s, 1, n)

\* The title cut to 50 characters first and stripped afterwards.
clean_title_cutfirst(title) == Filter(Take(title, TitleCut))

\* "".join(c for c in title if c.isalnum() or c in (' ', '-', '_'))[:50]
clean_title(title) == Take(Filter(title), TitleCut)

\* f"{clean_title}_{original_filename}"
FileName(title, original_filename) ==
  clean_title(title) \o <<"_">> \o original_filename

Untitled == <<"u", "n", "t", "i", "t", "l", "e", "d">>

\* ------------------------------------------------------------ remote gallery
\* Submissions as the search endpoint lists them.
SubA == [submission_id |-> "1", title |-> <<"a", "/">>]
SubB == [submission_id |-> "2", title |-> <<"a">>]
SubC == [submission_id |-> "3"]
SubBad == [title |-> <<"b">>]

\* What api_submissions.php answers for a submission id: data["submissions"].
RemoteFiles ==
  [i \in {"1", "2", "3"} |->
     CASE i = "1" ->
            << [files |-> << [file_name |-> <<"x">>, file_url_full |-> "U1",
                              file_url_screen |-> "S1"],
                             [file_name |-> <<"y">>, file_url_screen |-> "S2"] >>] >>
       [] i = "2" ->
            << [files |-> << [file_name |-> <<"z">>],
                             [file_name |-> <<"x">>, file_url_full |-> "U3"] >>] >>
       [] OTHER ->
            << [submission_id |-> "3"],
               [files |-> << [file_url_full |-> "", file_url_screen |-> "S3"] >>] >>]

\* Python truthiness of an optional string.
Truthy(v) == v # None /\ v # ""

RECURSIVE Flatten(_)
\* The file_obj entries "for file_info in files_info: for file_obj in
\* file_info.get('files', [])" visits, in order.
Flatten(files_info) ==
  IF files_info = <<>> THEN <<>>
  ELSE Get(Head(files_info), "files", <<>>) \o Flatten(Tail(files_info))

\* file_obj.get("file_url_full") or file_obj.get("file_url_screen")
Url(file_obj) ==
  IF Truthy(Get(file_obj, "file_url_full", None))
    THEN file_obj.file_url_full
    ELSE Get(file_obj, "file_url_screen", None)

\* The submission lists a page of the gallery can hold.
PageKinds == {<<>>, <<SubA, SubB>>, <<SubC>>, <<SubB, SubBad, SubA>>}

\* Every path under save_directory/artist_username the gallery can lead to.
\* The paths process_submission computes for a listed submission.
TargetsOf(submission) ==
  IF "submission_id" \in DOMAIN submission
    THEN {FileName(Get(submission, "title", Untitled), Get(f, "file_name", <<>>)) :
            f \in {g \in Range(Flatten(RemoteFiles[submission.submission_id])) :
                     Truthy(Url(g))}}
    ELSE {}

Names == UNION {TargetsOf(sb) : sb \in UNION {Range(k) : k \in PageKinds}}

Absent == "absent"
Partial == "partial"
Complete == "complete"
Contents == {Absent, Partial, Complete}

VARIABLES
  config,            \* config.json: the key paths present
  empty,             \* config.json: the key paths whose value is the string ""
  pages_count,       \* remote: the pages_count every search answer reports
  pages,             \* remote: page number -> submissions listed there
  fs,                \* disk: target file name -> content
  rerun,             \* TRUE once main has been started again
  fs0,               \* disk as it was when the current run started
  faithful,          \* TRUE while every answer, in every run, was the gallery's own
  pc,                \* position of main
  session_id,        \* self.session_id
  attempt,           \* loop variable of the retry loop in progress
  outcomes,          \* outcomes of the requests of the call in progress
  sleeps,            \* retry sleeps of the retry loop in progress
  slept,             \* the asyncio.sleep of the last step, or NoSleep
  ret,               \* boolean result of login / download_file
  user_id,           \* main's user_id
  page,              \* main's page
  total_pages,       \* main's total_pages
  submissions,       \* main's submissions
  total_downloads,   \* main's total_downloads
  sub_i,             \* index of the submission being processed
  todo,              \* file_obj entries of the submission still to visit
  downloaded_count,  \* process_submission's downloaded_count
  all_files_exist,   \* process_submission's all_files_exist
  dl_name,           \* filename argument of download_file
  called,            \* kinds of network call made in this run
  fetched,           \* page numbers requested in this run, in order
  wrote,             \* TRUE once this run opened a file for writing
  returned_true,     \* number of download_file calls of this run that returned True
  failures,          \* kinds of call that came back failed in this run
  exit               \* how the run ended

vars == <<config, empty, pages_count, pages, fs, rerun, fs0, faithful, returned_true,
          pc, session_id, attempt,
          outcomes, sleeps, slept, ret, user_id, page, total_pages, submissions,
          total_downloads, sub_i, todo, downloaded_count, all_files_exist,
          dl_name, called, fetched, wrote, failures, exit>>

remote == <<config, empty, pages_count, pages>>
hist == <<rerun, fs0, faithful, returned_true>>
retry == <<attempt, outcomes, sleeps>>
mainvars == <<user_id, page, total_pages, submissions, total_downloads>>
subvars == <<sub_i, todo, downloaded_count, all_files_exist, dl_name>>

\* The state of a process that has just started main().
Blank ==
  /\ session_id = None
  /\ attempt = 0 /\ outcomes = <<>> /\ sleeps = 0 /\ slept = NoSleep
  /\ ret = FALSE
  /\ user_id = None
  /\ page = 0 /\ total_pages = 0 /\ submissions = <<>> /\ total_downloads = 0
  /\ sub_i = 0 /\ todo = <<>> /\ downloaded_count = 0 /\ all_files_exist = TRUE
  /\ dl_name = <<>>
  /\ called = <<>> /\ fetched = <<>> /\ wrote = FALSE /\ failures = {}
  /\ returned_true = 0
  /\ exit = None

Fresh == pc = "construct" /\ Blank

Init ==
  /\ config \in Configs
  \* no step of a run reads a value for emptiness: one filling will do
  /\ empty = {}
  /\ pages_count \in 0..(MaxPages + 1)
  /\ pages \in [1..MaxPages -> PageKinds]
  \* a run that fails construction never asks the remote: one gallery will do
  /\ config # FullConfig => pages_count = 0 /\ pages = [p \in 1..MaxPages |-> <<>>]
  /\ fs = [n \in Names |-> Absent]
  /\ fs0 = fs
  /\ faithful = TRUE
  /\ rerun = FALSE
  /\ Fresh

\* An exception that reaches main's "except Exception": logged, re-raised.
Raise(e) == pc' = "raised" /\ exit' = e

\* The exception of a request that ran into the client's timeout: not an
\* aiohttp.ClientError, so no "except aiohttp.ClientError" clause catches it.
TimeoutError == "asyncio.TimeoutError"

\* InkbunnyDownloader.__init__ (with get_config_path/json.load before it).
Construct ==
  /\ pc = "construct"
  /\ IF validate_config(config)
       THEN pc' = "login" /\ exit' = exit
       ELSE Raise("ValueError: Invalid configuration")
  /\ session_id' = None
  /\ attempt' = 0 /\ outcomes' = <<>> /\ sleeps' = 0 /\ slept' = NoSleep
  /\ UNCHANGED <<remote, fs, hist, ret, mainvars, subvars, called,
                 fetched, wrote, failures>>

\* Record a network call of kind k: kinds in order of first occurrence.
Called(k) == IF k \in Range(called) THEN called ELSE Append(called, k)

\* End of one pass of "for attempt in range(self.retry_count)" that did not
\* return: the next pass, or "return False" after the last one.
NextAttempt(loop, return, kind) ==
  /\ attempt' = attempt + 1
  /\ IF attempt + 1 < retry_count
       THEN pc' = loop /\ ret' = ret /\ failures' = failures
       ELSE pc' = return /\ ret' = FALSE /\ failures' = failures \cup {kind}

\* The except branch sleeping after every failed attempt, the last included.
OnClientErrorAlways == slept' = Sleep("retry_delay", retry_delay) /\ sleeps' = sleeps + 1

\* The "except aiohttp.ClientError" branch of both retry loops.
OnClientError ==
  IF attempt < retry_count - 1
    THEN slept' = Sleep("retry_delay", retry_delay) /\ sleeps' = sleeps + 1
    ELSE slept' = NoSleep /\ sleeps' = sleeps

\* The retry delay slept after a logged answer as after a ClientError.
OnStatusErrorSleep ==
  IF attempt < retry_count - 1
    THEN slept' = Sleep("retry_delay", retry_delay) /\ sleeps' = sleeps + 1
    ELSE slept' = NoSleep /\ sleeps' = sleeps

\* The branches of both retry loops that only log (a non-200 status, a 200
\* answer without "sid") and fall through to the end of the loop body.
OnStatusError == slept' = NoSleep /\ sleeps' = sleeps

LoginOutcomes == {"err", "timeout", "non200", "sid", "emptysid", "nosid"}

\* The login retry loop returning False on a 200 answer without "sid".
LoginAttemptNoRetry(o) ==
  /\ pc = "login"
  /\ outcomes' = Append(outcomes, o)
  /\ called' = Called("login")
  /\ faithful' = (faithful /\ o = "sid")
  /\ exit' = IF o = "timeout" THEN TimeoutError ELSE exit
  /\ CASE o \in {"sid", "emptysid"} ->
            /\ session_id' = IF o = "sid" THEN Sid ELSE EmptySid
            /\ ret' = TRUE /\ pc' = "login_ret"
            /\ UNCHANGED <<attempt, sleeps, failures>> /\ slept' = NoSleep
       [] o = "timeout" ->
            /\ pc' = "raised"
            /\ UNCHANGED <<session_id, ret, attempt, sleeps, failures>>
            /\ slept' = NoSleep
       [] o = "nosid" ->
            /\ ret' = FALSE /\ pc' = "login_ret"
            /\ failures' = failures \cup {"login"}
            /\ UNCHANGED <<session_id, attempt, sleeps>> /\ slept' = NoSleep
       [] o = "non200" ->
            /\ NextAttempt("login", "login_ret", "login")
            /\ UNCHANGED <<session_id, sleeps>> /\ slept' = NoSleep
       [] OTHER ->
            /\ OnClientError
            /\ NextAttempt("login", "login_ret", "login")
            /\ UNCHANGED session_id
  /\ UNCHANGED <<remote, fs, rerun, fs0, returned_true, mainvars, subvars, fetched,
                 wrote>>

\* InkbunnyDownloader.login: one pass of the retry loop, one POST.
LoginAttempt(o) ==
  /\ pc = "login"
  /\ outcomes' = Append(outcomes, o)
  /\ called' = Called("login")
  /\ faithful' = (faithful /\ o = "sid")
  /\ exit' = IF o = "timeout" THEN TimeoutError ELSE exit
  /\ CASE o \in {"sid", "emptysid"} ->
            /\ session_id' = IF o = "sid" THEN Sid ELSE EmptySid
            /\ ret' = TRUE /\ pc' = "login_ret"
            /\ UNCHANGED <<attempt, sleeps, failures>> /\ slept' = NoSleep
       [] o = "timeout" ->
            /\ pc' = "raised"
            /\ UNCHANGED <<session_id, ret, attempt, sleeps, failures>>
            /\ slept' = NoSleep
       [] o \in {"nosid", "non200"} ->
            /\ OnStatusError
            /\ NextAttempt("login", "login_ret", "login")
            /\ UNCHANGED session_id
       [] OTHER ->
            /\ OnClientError
            /\ NextAttempt("login", "login_ret", "login")
            /\ UNCHANGED session_id
  /\ UNCHANGED <<remote, fs, rerun, fs0, returned_true, mainvars, subvars, fetched,
                 wrote>>

ClearRetry == attempt' = 0 /\ outcomes' = <<>> /\ sleeps' = 0 /\ slept' = NoSleep

\* main: "if not await downloader.login(): ... return"
MainLoginResult ==
  /\ pc = "login_ret"
  /\ IF ret THEN pc' = "lookup" /\ exit' = exit
            ELSE pc' = "done" /\ exit' = "login failed"
  /\ ClearRetry
  /\ UNCHANGED <<remote, fs, hist, session_id, ret, mainvars, subvars,
                 called, fetched, wrote, failures>>

\* A transport error the call catches (aiohttp.ClientError) or a non-200
\* answer.
Failed(o) == o \in {"err", "non200"}

\* A call of kind k that made one request with outcome o.
OneRequest(k, o) ==
  /\ called' = Called(k)
  /\ outcomes' = <<o>>
  /\ failures' = IF Failed(o) THEN failures \cup {k} ELSE failures
  /\ faithful' = (faithful /\ o \in {"found", "ok"})
  /\ attempt' = 0 /\ sleeps' = 0 /\ slept' = NoSleep

\* A call that raised before any request.
NoRequest ==
  /\ outcomes' = <<>> /\ attempt' = 0 /\ sleeps' = 0 /\ slept' = NoSleep
  /\ UNCHANGED <<called, failures, faithful>>

LookupOutcomes == {"err", "timeout", "non200", "found", "empty", "nouserid"}

\* InkbunnyDownloader.get_user_id
GetUserId(o) ==
  /\ pc = "lookup"
  /\ IF ~Truthy(session_id)
       THEN Raise("ValueError: Not logged in") /\ NoRequest /\ user_id' = user_id
       ELSE /\ OneRequest("lookup", o)
            /\ CASE o = "found" ->
                      pc' = "lookup_ret" /\ exit' = exit /\ user_id' = Uid
                 [] o = "nouserid" ->
                      Raise("KeyError: user_id") /\ user_id' = user_id
                 [] o = "timeout" ->
                      Raise(TimeoutError) /\ user_id' = user_id
                 [] OTHER ->
                      pc' = "lookup_ret" /\ exit' = exit /\ user_id' = None
  /\ UNCHANGED <<remote, fs, rerun, fs0, returned_true, session_id, ret, page, total_pages,
                 submissions, total_downloads, subvars, fetched, wrote>>

\* main going on to the first page whatever get_user_id returned.
MainLookupResultIgnore ==
  /\ pc = "lookup_ret"
  /\ pc' = "fetch" /\ exit' = exit /\ page' = 1 /\ total_downloads' = 0
  /\ ClearRetry
  /\ UNCHANGED <<remote, fs, hist, session_id, ret, user_id, total_pages,
                 submissions, subvars, called, fetched, wrote, failures>>

\* main: "if not user_id: ... return", then page = 1, total_downloads = 0.
MainLookupResult ==
  /\ pc = "lookup_ret"
  /\ IF user_id = None
       THEN pc' = "done" /\ exit' = "artist not found"
            /\ UNCHANGED <<page, total_downloads>>
       ELSE pc' = "fetch" /\ exit' = exit /\ page' = 1 /\ total_downloads' = 0
  /\ ClearRetry
  /\ UNCHANGED <<remote, fs, hist, session_id, ret, user_id, total_pages,
                 submissions, subvars, called, fetched, wrote, failures>>

PageOutcomes == {"err", "timeout", "non200", "ok", "nocount", "badcount", "nosubs"}

\* data.get("submissions", []) of a search answer for page p: a page beyond
\* the gallery's last one lists nothing.
PageAt(p) == IF p \in DOMAIN pages THEN pages[p] ELSE <<>>

\* The (submissions, total_pages) get_user_submissions returns for page p.
PageResult(o, p) ==
  CASE o = "ok" -> <<PageAt(p), pages_count>>
    [] o = "nocount" -> <<PageAt(p), 1>>
    [] o = "nosubs" -> <<<<>>, pages_count>>
    [] OTHER -> <<<<>>, 0>>

\* InkbunnyDownloader.get_user_submissions, and main's assignment of its
\* result: "submissions, total_pages = ..." for the first fetch,
\* "submissions, _ = ..." inside the loop.
GetUserSubmissions(o) ==
  /\ pc = "fetch"
  /\ IF ~Truthy(session_id)
       THEN /\ Raise("ValueError: Not logged in") /\ NoRequest
            /\ UNCHANGED <<submissions, total_pages, fetched>>
       ELSE /\ OneRequest("page", o)
            /\ fetched' = Append(fetched, page)
            /\ IF o \in {"badcount", "timeout"}
                 THEN /\ Raise(IF o = "timeout" THEN TimeoutError
                                                 ELSE "ValueError: int(pages_count)")
                      /\ UNCHANGED <<submissions, total_pages>>
                 ELSE /\ pc' = "fetch_ret" /\ exit' = exit
                      /\ submissions' = PageResult(o, page)[1]
                      /\ total_pages' = IF page = 1 THEN PageResult(o, page)[2]
                                                    ELSE total_pages
  /\ UNCHANGED <<remote, fs, rerun, fs0, returned_true, session_id, ret, user_id, page,
                 total_downloads, subvars, wrote>>

\* main going on with the page loop after an empty re-fetch.
MainPageResultNoBreak ==
  /\ pc = "fetch_ret"
  /\ IF submissions = <<>> /\ page = 1
       THEN pc' = "done" /\ exit' = "no submissions" /\ sub_i' = sub_i
       ELSE IF page = 1
              THEN pc' = "loop" /\ exit' = exit /\ sub_i' = sub_i
              ELSE pc' = "subs" /\ exit' = exit /\ sub_i' = 1
  /\ ClearRetry
  /\ UNCHANGED <<remote, fs, hist, session_id, ret, mainvars, todo,
                 downloaded_count, all_files_exist, dl_name, called, fetched,
                 wrote, failures>>

\* main: "if not submissions" after the first fetch (return) and after a
\* re-fetch inside the loop (break).
MainPageResult ==
  /\ pc = "fetch_ret"
  /\ IF submissions = <<>>
       THEN IF page = 1
              THEN pc' = "done" /\ exit' = "no submissions" /\ sub_i' = sub_i
              ELSE pc' = "report" /\ exit' = exit /\ sub_i' = sub_i
       ELSE IF page = 1
              THEN pc' = "loop" /\ exit' = exit /\ sub_i' = sub_i
              ELSE pc' = "subs" /\ exit' = exit /\ sub_i' = 1
  /\ ClearRetry
  /\ UNCHANGED <<remote, fs, hist, session_id, ret, mainvars, todo,
                 downloaded_count, all_files_exist, dl_name, called, fetched,
                 wrote, failures>>

\* The loop head testing "page < total_pages".
LoopHeadStrict ==
  /\ pc = "loop"
  /\ IF ~(page < total_pages)
       THEN pc' = "report" /\ sub_i' = sub_i
       ELSE IF page > 1 THEN pc' = "fetch" /\ sub_i' = sub_i
                        ELSE pc' = "subs" /\ sub_i' = 1
  /\ slept' = NoSleep
  /\ UNCHANGED <<remote, fs, hist, session_id, retry, ret, mainvars, todo,
                 downloaded_count, all_files_exist, dl_name, called, fetched,
                 wrote, failures, exit>>

\* main: "while page <= total_pages:" and "if page > 1:".
LoopHead ==
  /\ pc = "loop"
  /\ IF ~(page <= total_pages)
       THEN pc' = "report" /\ sub_i' = sub_i
       ELSE IF page > 1 THEN pc' = "fetch" /\ sub_i' = sub_i
                        ELSE pc' = "subs" /\ sub_i' = 1
  /\ slept' = NoSleep
  /\ UNCHANGED <<remote, fs, hist, session_id, retry, ret, mainvars, todo,
                 downloaded_count, all_files_exist, dl_name, called, fetched,
                 wrote, failures, exit>>

FilesOutcomes == {"err", "timeout", "non200", "ok", "nosubs"}

\* Title of the submission main is processing.
Title == Get(submissions[sub_i], "title", Untitled)

\* process_submission up to its file loop, get_submission_files included.
ProcessSubmission(o) ==
  /\ pc = "subs"
  /\ sub_i <= Len(submissions)
  /\ IF "submission_id" \notin DOMAIN submissions[sub_i]
       THEN /\ Raise("KeyError: submission_id") /\ NoRequest
            /\ UNCHANGED <<todo, downloaded_count, all_files_exist>>
       ELSE IF ~Truthy(session_id)
         THEN /\ Raise("ValueError: Not logged in") /\ NoRequest
              /\ UNCHANGED <<todo, downloaded_count, all_files_exist>>
         ELSE /\ OneRequest("files", o)
              /\ IF o = "timeout"
                   THEN /\ Raise(TimeoutError)
                        /\ UNCHANGED <<todo, downloaded_count, all_files_exist>>
                   ELSE /\ todo' = IF o = "ok"
                                     THEN Flatten(RemoteFiles[submissions[sub_i].submission_id])
                                     ELSE <<>>
                        /\ downloaded_count' = 0
                        /\ all_files_exist' = TRUE
                        /\ pc' = "file" /\ exit' = exit
  /\ UNCHANGED <<remote, fs, rerun, fs0, returned_true, session_id, ret, mainvars,
                 sub_i, dl_name, fetched, wrote>>

\* process_submission calling download_file without "if not filepath.exists()".
ProcessFileNoCheck ==
  /\ pc = "file"
  /\ todo # <<>>
  /\ LET file_obj == Head(todo)
         filename == FileName(Title, Get(file_obj, "file_name", <<>>))
     IN IF ~Truthy(Url(file_obj))
          THEN /\ todo' = Tail(todo)
               /\ UNCHANGED <<pc, all_files_exist, dl_name>>
          ELSE /\ all_files_exist' = FALSE
               /\ dl_name' = filename
               /\ pc' = "dl_enter"
               /\ todo' = todo
  /\ ClearRetry
  /\ UNCHANGED <<remote, fs, hist, session_id, ret, mainvars, sub_i,
                 downloaded_count, called, fetched, wrote, failures, exit>>

\* One pass of process_submission's file loop, up to the call of download_file.
ProcessFile ==
  /\ pc = "file"
  /\ todo # <<>>
  /\ LET file_obj == Head(todo)
         filename == FileName(Title, Get(file_obj, "file_name", <<>>))
     IN IF ~Truthy(Url(file_obj))
          THEN /\ todo' = Tail(todo)
               /\ UNCHANGED <<pc, all_files_exist, dl_name>>
          ELSE IF fs[filename] = Absent
            THEN /\ all_files_exist' = FALSE
                 /\ dl_name' = filename
                 /\ pc' = "dl_enter"
                 /\ todo' = todo
            ELSE /\ todo' = Tail(todo)
                 /\ UNCHANGED <<pc, all_files_exist, dl_name>>
  /\ ClearRetry
  /\ UNCHANGED <<remote, fs, hist, session_id, ret, mainvars, sub_i,
                 downloaded_count, called, fetched, wrote, failures, exit>>

\* download_file without its "if filepath.exists()" test.
DownloadFileEnterNoSkip ==
  /\ pc = "dl_enter"
  /\ pc' = "dl_try" /\ ret' = ret
  /\ ClearRetry
  /\ UNCHANGED <<remote, fs, hist, session_id, mainvars, subvars, called,
                 fetched, wrote, failures, exit>>

\* download_file up to its retry loop: makedirs and the skip of a file that
\* is already there.
DownloadFileEnter ==
  /\ pc = "dl_enter"
  /\ IF fs[dl_name] # Absent
       THEN pc' = "dl_ret" /\ ret' = TRUE /\ returned_true' = returned_true + 1
       ELSE pc' = "dl_try" /\ ret' = ret /\ returned_true' = returned_true
  /\ ClearRetry
  /\ UNCHANGED <<remote, fs, rerun, fs0, faithful, session_id, mainvars, subvars, called,
                 fetched, wrote, failures, exit>>

\* "err": ClientError before a response; "timeout": TimeoutError before a
\* response; "non200"; "body": 200 and the body read to its end; "cut": 200,
\* the file opened, ClientError while reading.
DownloadOutcomes == {"err", "timeout", "non200", "body", "cut"}

\* The download retry loop going on to the next attempt after a success.
DownloadAttemptNoReturn(o) ==
  /\ pc = "dl_try"
  /\ outcomes' = Append(outcomes, o)
  /\ called' = Called("download")
  /\ faithful' = (faithful /\ o \in {"body", "non200"})
  /\ exit' = IF o = "timeout" THEN TimeoutError ELSE exit
  /\ returned_true' = IF o = "body" THEN returned_true + 1 ELSE returned_true
  /\ CASE o = "timeout" ->
            /\ pc' = "raised"
            /\ UNCHANGED <<fs, wrote, ret, attempt, sleeps, failures>>
            /\ slept' = NoSleep
       [] o = "body" ->
            /\ fs' = [fs EXCEPT ![dl_name] = Complete]
            /\ wrote' = TRUE
            /\ NextAttempt("dl_try", "dl_ret", "download")
            /\ sleeps' = sleeps /\ slept' = NoSleep
       [] o = "cut" ->
            /\ fs' = [fs EXCEPT ![dl_name] = Partial]
            /\ wrote' = TRUE
            /\ OnClientError
            /\ NextAttempt("dl_try", "dl_ret", "download")
       [] o = "non200" ->
            /\ NextAttempt("dl_try", "dl_ret", "download")
            /\ UNCHANGED <<fs, wrote, sleeps>> /\ slept' = NoSleep
       [] OTHER ->
            /\ OnClientError
            /\ NextAttempt("dl_try", "dl_ret", "download")
            /\ UNCHANGED <<fs, wrote>>
  /\ UNCHANGED <<remote, rerun, fs0, session_id, mainvars, subvars, fetched>>

\* download_file: one pass of the retry loop, one GET.
DownloadAttempt(o) ==
  /\ pc = "dl_try"
  /\ outcomes' = Append(outcomes, o)
  /\ called' = Called("download")
  /\ faithful' = (faithful /\ o \in {"body", "non200"})
  /\ exit' = IF o = "timeout" THEN TimeoutError ELSE exit
  /\ returned_true' = IF o = "body" THEN returned_true + 1 ELSE returned_true
  /\ CASE o = "timeout" ->
            /\ pc' = "raised"
            /\ UNCHANGED <<fs, wrote, ret, attempt, sleeps, failures>>
            /\ slept' = NoSleep
       [] o = "body" ->
            /\ fs' = [fs EXCEPT ![dl_name] = Complete]
            /\ wrote' = TRUE
            /\ ret' = TRUE /\ pc' = "dl_ret"
            /\ UNCHANGED <<attempt, sleeps, failures>> /\ slept' = NoSleep
       [] o = "cut" ->
            /\ fs' = [fs EXCEPT ![dl_name] = Partial]
            /\ wrote' = TRUE
            /\ OnClientError
            /\ NextAttempt("dl_try", "dl_ret", "download")
       [] o = "non200" ->
            /\ OnStatusError
            /\ NextAttempt("dl_try", "dl_ret", "download")
            /\ UNCHANGED <<fs, wrote>>
       [] OTHER ->
            /\ OnClientError
            /\ NextAttempt("dl_try", "dl_ret", "download")
            /\ UNCHANGED <<fs, wrote>>
  /\ UNCHANGED <<remote, rerun, fs0, session_id, mainvars, subvars, fetched>>

\* process_submission ending its file loop when a download fails.
ProcessDownloadResultStop ==
  /\ pc = "dl_ret"
  /\ IF ret
       THEN /\ downloaded_count' = downloaded_count + 1
            /\ slept' = Sleep("between_files", delay.between_files)
            /\ todo' = Tail(todo)
       ELSE /\ downloaded_count' = downloaded_count
            /\ slept' = NoSleep
            /\ todo' = <<>>
  /\ pc' = "file"
  /\ attempt' = 0 /\ outcomes' = <<>> /\ sleeps' = 0
  /\ UNCHANGED <<remote, fs, hist, session_id, ret, mainvars, sub_i,
                 all_files_exist, dl_name, called, fetched, wrote, failures, exit>>

\* process_submission: "if await self.download_file(...): downloaded_count += 1"
\* and the sleep of delay['between_files'].
ProcessDownloadResult ==
  /\ pc = "dl_ret"
  /\ IF ret
       THEN /\ downloaded_count' = downloaded_count + 1
            /\ slept' = Sleep("between_files", delay.between_files)
       ELSE /\ downloaded_count' = downloaded_count
            /\ slept' = NoSleep
  /\ todo' = Tail(todo)
  /\ pc' = "file"
  /\ attempt' = 0 /\ outcomes' = <<>> /\ sleeps' = 0
  /\ UNCHANGED <<remote, fs, hist, session_id, ret, mainvars, sub_i,
                 all_files_exist, dl_name, called, fetched, wrote, failures, exit>>

\* main keeping the count of the last submission only: "total_downloads =
\* downloaded".
ProcessSubmissionReturnAssign ==
  /\ pc = "file"
  /\ todo = <<>>
  /\ total_downloads' = downloaded_count
  /\ sub_i' = sub_i + 1
  /\ pc' = "subs"
  /\ ClearRetry
  /\ UNCHANGED <<remote, fs, hist, session_id, ret, user_id, page,
                 total_pages, submissions, todo, downloaded_count,
                 all_files_exist, dl_name, called, fetched, wrote, failures, exit>>

\* process_submission returning, and main's "total_downloads += downloaded".
ProcessSubmissionReturn ==
  /\ pc = "file"
  /\ todo = <<>>
  /\ total_downloads' = total_downloads + downloaded_count
  /\ sub_i' = sub_i + 1
  /\ pc' = "subs"
  /\ ClearRetry
  /\ UNCHANGED <<remote, fs, hist, session_id, ret, user_id, page,
                 total_pages, submissions, todo, downloaded_count,
                 all_files_exist, dl_name, called, fetched, wrote, failures, exit>>

\* main without "page += 1".
PageCompletedStay ==
  /\ pc = "subs"
  /\ sub_i > Len(submissions)
  /\ IF page = total_pages
       THEN pc' = "report" /\ slept' = NoSleep
       ELSE pc' = "loop" /\ slept' = Sleep("between_pages", delay.between_pages)
  /\ page' = page
  /\ UNCHANGED <<remote, fs, hist, session_id, retry, ret, user_id,
                 total_pages, submissions, total_downloads, subvars, called,
                 fetched, wrote, failures, exit>>

\* main sleeping delay['between_pages'] after the last page as well.
PageCompletedSleepLast ==
  /\ pc = "subs"
  /\ sub_i > Len(submissions)
  /\ IF page = total_pages
       THEN pc' = "report" /\ page' = page
       ELSE pc' = "loop" /\ page' = page + 1
  /\ slept' = Sleep("between_pages", delay.between_pages)
  /\ UNCHANGED <<remote, fs, hist, session_id, retry, ret, user_id,
                 total_pages, submissions, total_downloads, subvars, called,
                 fetched, wrote, failures, exit>>

\* main after the last submission of a page: the last page ends the loop,
\* any other is followed by page += 1 and the sleep of delay['between_pages'].
PageCompleted ==
  /\ pc = "subs"
  /\ sub_i > Len(submissions)
  /\ IF page = total_pages
       THEN pc' = "report" /\ page' = page /\ slept' = NoSleep
       ELSE /\ pc' = "loop" /\ page' = page + 1
            /\ slept' = Sleep("between_pages", delay.between_pages)
  /\ UNCHANGED <<remote, fs, hist, session_id, retry, ret, user_id,
                 total_pages, submissions, total_downloads, subvars, called,
                 fetched, wrote, failures, exit>>

\* main: the final "Download completed! Total files downloaded" line.
Report ==
  /\ pc = "report"
  /\ pc' = "done" /\ exit' = "completed"
  /\ slept' = NoSleep
  /\ UNCHANGED <<remote, fs, hist, session_id, retry, ret, mainvars,
                 subvars, called, fetched, wrote, failures>>

\* The program is started again: a new process, the same disk.
Rerun ==
  /\ pc \in {"done", "raised"}
  /\ pc' = "construct"
  /\ session_id' = None
  /\ ClearRetry
  /\ ret' = FALSE
  /\ user_id' = None
  /\ page' = 0 /\ total_pages' = 0 /\ submissions' = <<>> /\ total_downloads' = 0
  /\ sub_i' = 0 /\ todo' = <<>> /\ downloaded_count' = 0 /\ all_files_exist' = TRUE
  /\ dl_name' = <<>>
  /\ called' = <<>> /\ fetched' = <<>> /\ wrote' = FALSE /\ failures' = {}
  /\ returned_true' = 0
  /\ exit' = None
  /\ fs0' = fs
  /\ rerun' = TRUE
  /\ UNCHANGED <<remote, fs, faithful>>

\* A step of the run in progress.
RunStep ==
  \/ Construct
  \/ \E o \in LoginOutcomes : LoginAttempt(o)
  \/ MainLoginResult
  \/ \E o \in LookupOutcomes : GetUserId(o)
  \/ MainLookupResult
  \/ \E o \in PageOutcomes : GetUserSubmissions(o)
  \/ MainPageResult
  \/ LoopHead
  \/ \E o \in FilesOutcomes : ProcessSubmission(o)
  \/ ProcessFile
  \/ DownloadFileEnter
  \/ \E o \in DownloadOutcomes : DownloadAttempt(o)
  \/ ProcessDownloadResult
  \/ ProcessSubmissionReturn
  \/ PageCompleted
  \/ Report

Next == RunStep \/ Rerun

Spec == Init /\ [][Next]_vars

\* The pages of the galleries whose files go to two paths.
LivePageKinds == {<<>>, <<SubA, SubB>>, <<SubB, SubBad, SubA>>}

InitLive == Init /\ \A p \in DOMAIN pages : pages[p] \in LivePageKinds

\* Every network call and every sleep returns: a run that can take a step
\* takes one.  Starting the program again is left to the user.
SpecLive == InitLive /\ [][Next]_vars /\ WF_vars(RunStep)

\* ------------------------------------------------- download_file on its own
\* download_file is a public method: any caller may hand it any file name,
\* whatever the disk holds.
InitDL ==
  /\ config = FullConfig
  /\ empty = {}
  /\ pages_count = 0
  /\ pages = [p \in 1..MaxPages |-> <<>>]
  /\ fs \in [Names -> Contents]
  /\ fs0 = fs
  /\ faithful = TRUE
  /\ rerun = FALSE
  /\ pc = "idle"
  /\ Blank

\* A caller invokes download_file(url, filename, save_dir).
CallDownloadFile ==
  /\ pc = "idle"
  /\ \E n \in Names : dl_name' = n
  /\ pc' = "dl_enter"
  /\ fs0' = fs
  /\ ClearRetry
  /\ called' = <<>> /\ wrote' = FALSE /\ failures' = {}
  /\ returned_true' = 0
  /\ UNCHANGED <<remote, fs, rerun, faithful, session_id, ret, mainvars, sub_i, todo,
                 downloaded_count, all_files_exist, fetched, exit>>

\* download_file has returned to that caller.
DownloadFileReturn ==
  /\ pc = "dl_ret"
  /\ pc' = "idle"
  /\ UNCHANGED <<remote, fs, hist, session_id, retry, slept, ret, mainvars,
                 subvars, called, fetched, wrote, failures, exit>>

NextDL ==
  \/ CallDownloadFile
  \/ DownloadFileEnter
  \/ \E o \in DownloadOutcomes : DownloadAttempt(o)
  \/ DownloadFileReturn

SpecDL == InitDL /\ [][NextDL]_vars

\* ----------------------------------------------- construction on its own
\* InkbunnyDownloader(config) for every config.json, with every choice of
\* the values that are empty strings.
InitCfg ==
  /\ config \in Configs
  /\ empty \in SUBSET (Leaves \cap config)
  /\ pages_count = 0
  /\ pages = [p \in 1..MaxPages |-> <<>>]
  /\ fs = [n \in Names |-> Absent]
  /\ fs0 = fs
  /\ faithful = TRUE
  /\ rerun = FALSE
  /\ Fresh

NextCfg == Construct

SpecCfg == InitCfg /\ [][NextCfg]_vars

\* ------------------------------------------------ file names on their own
\* process_submission's file loop for one listed submission with one file
\* entry, for every title and file name of a bounded set.
TitleChars == {"a", "7", " ", "-", "_", "/", "!"}

ShortTitles(n) == UNION {[1..k -> TitleChars] : k \in 0..n}

Pad(n) == [i \in 1..n |-> "a"]

FooBarBaz == <<"F", "o", "o", "/", "B", "a", "r", ":", " ", "B", "a", "z", "!", "!">>

ImgPng == <<"i", "m", "g", ".", "p", "n", "g">>

\* Titles: the short ones, the one of the example, and long ones around the
\* cut at 50 with characters to strip before and after it.
Titles ==
  ShortTitles(MaxTitle) \cup {FooBarBaz}
    \cup {t \o Pad(n) \o u : t \in ShortTitles(1), u \in ShortTitles(1),
                              n \in (TitleCut - 2)..(TitleCut + 1)}

FileNames == {<<>>, <<"x">>, <<"/", "x">>, ImgPng}

InitFN ==
  /\ config = FullConfig
  /\ empty = {}
  /\ pages_count = 1
  /\ pages = [p \in 1..MaxPages |-> <<>>]
  /\ submissions \in {<<[submission_id |-> "1"]>>}
                        \cup {<<[submission_id |-> "1", title |-> t]>> : t \in Titles}
  /\ todo \in {<<[file_url_full |-> "U1"]>>}
                 \cup {<<[file_name |-> f, file_url_full |-> "U1"]>> : f \in FileNames}
  /\ sub_i = 1
  \* an empty download directory: the one path looked up holds no file
  /\ fs = [n \in {FileName(Get(submissions[1], "title", Untitled),
                            Get(todo[1], "file_name", <<>>))} |-> Absent]
  /\ fs0 = fs
  /\ faithful = TRUE
  /\ rerun = FALSE
  /\ pc = "file"
  /\ session_id = Sid
  /\ attempt = 0 /\ outcomes = <<>> /\ sleeps = 0 /\ slept = NoSleep
  /\ ret = FALSE
  /\ user_id = Uid
  /\ page = 1 /\ total_pages = 1 /\ total_downloads = 0
  /\ downloaded_count = 0 /\ all_files_exist = TRUE
  /\ dl_name = <<>>
  /\ called = <<"login", "lookup", "page", "files">> /\ fetched = <<1>>
  /\ wrote = FALSE /\ failures = {}
  /\ returned_true = 0
  /\ exit = None

NextFN == ProcessFile

SpecFN == InitFN /\ [][NextFN]_vars

\* ------------------------------------------------------------------ claims
Last(sq) == sq[Len(sq)]

UpTo(n) == [i \in 1..n |-> i]

IsPrefixOf(p, q) == Len(p) <= Len(q) /\ \A i \in DOMAIN p : p[i] = q[i]

\* Every path the gallery's pages lead process_submission to.
Targets == UNION {TargetsOf(sb) : sb \in UNION {Range(pages[p]) : p \in DOMAIN pages}}

\* C1: a download_file call that finds a file at its target path returns
\* true, makes no request and leaves the disk as it is.
C1_SkipExisting ==
  [][(pc = "dl_enter" /\ fs[dl_name] # Absent)
       => /\ pc' = "dl_ret" /\ ret' = TRUE
          /\ outcomes' = <<>> /\ called' = called
          /\ fs' = fs /\ wrote' = wrote]_vars

C1_Witness ==
  pc = "dl_ret" /\ ret /\ outcomes = <<>> /\ called = <<>> /\ fs[dl_name] = Partial

\* C2 as stated: a run after the first, every answer in both having been the
\* gallery's own, makes no download request, writes nothing, counts 0 and
\* leaves the disk as the run before left it.
C2_Original ==
  (rerun /\ faithful)
    => /\ "download" \notin Range(called)
       /\ ~wrote
       /\ total_downloads = 0
       /\ fs = fs0

\* C2 amended: a run requests and writes only paths that held no file when it
\* started; started with a file at every target path of the gallery, it
\* makes no download request, writes nothing, counts 0 and leaves the disk
\* as it was.
C2_Idempotent ==
  /\ \A n \in Names : fs0[n] # Absent => fs[n] = fs0[n]
  /\ pc \in {"dl_enter", "dl_try", "dl_ret"} => fs0[dl_name] = Absent
  /\ (\A n \in Targets : fs0[n] # Absent)
       => /\ "download" \notin Range(called)
          /\ ~wrote
          /\ total_downloads = 0 /\ downloaded_count = 0
          /\ fs = fs0

C2_Witness ==
  /\ rerun /\ pc = "done" /\ exit = "completed"
  /\ Cardinality(Targets) >= 2
  /\ \A n \in Targets : fs0[n] # Absent
  /\ "files" \in Range(called)
  /\ total_downloads = 0 /\ fs = fs0

AllErr(sq) == \A i \in DOMAIN sq : sq[i] = "err"

C4_DownloadRetryBound ==
  (pc \in {"dl_try", "dl_ret"} /\ (pc = "dl_ret" => outcomes # <<>>))
    => /\ Len(outcomes) <= 3
       /\ \A i \in DOMAIN outcomes : outcomes[i] = "body" => i = Len(outcomes)
       /\ pc = "dl_try"
            => Len(outcomes) < 3 /\ \A i \in DOMAIN outcomes : outcomes[i] # "body"
       /\ pc = "dl_ret"
            => /\ ret <=> Last(outcomes) = "body"
               /\ ~ret <=> (Len(outcomes) = 3 /\ \A i \in 1..3 : outcomes[i] # "body")

C4_Witness ==
  pc = "dl_ret" /\ outcomes = <<"non200", "cut", "body">> /\ ret

\* C5: pages are requested in the order 1, 2, ..., each once, and none beyond
\* total_pages; a run that reports its total after page 1 gave total_pages
\* = N >= 1 and no request came back empty has requested exactly 1..N.
C5_Pagination ==
  /\ \A i \in DOMAIN fetched : fetched[i] = i /\ (i > 1 => i <= total_pages)
  /\ (exit = "completed" /\ total_pages >= 1 /\ submissions # <<>>)
       => fetched = UpTo(total_pages)

C5_Witness ==
  /\ pc = "done" /\ exit = "completed"
  /\ total_pages = 2 /\ submissions # <<>> /\ fetched = <<1, 2>>

\* C6: a configuration with a required section, field or delay key missing
\* fails validate_config, construction raises, and the run makes no network
\* call.
C6_MissingField ==
  config # FullConfig
    => /\ ~validate_config(config)
       /\ pc \in {"construct", "raised"}
       /\ pc = "raised" => exit = "ValueError: Invalid configuration"
       /\ called = <<>>

C6_Witness ==
  /\ config = FullConfig \ {<<"api", "delay", "between_pages">>}
  /\ pc = "raised" /\ called = <<>>

CallOrder == <<"login", "lookup", "page", "files", "download">>

\* C7: the kinds of network call first occur in the order login, lookup,
\* page, file metadata, download; a run ended by a failed login made only
\* login requests, one ended by a user lookup without user id made none
\* after the lookup, one ended by an empty page 1 made no file-metadata or
\* download request; a lookup follows only a login that stored a token, a
\* page request only a lookup that found the user.
C7_AbortOrdering ==
  /\ IsPrefixOf(called, CallOrder)
  /\ exit = "login failed" => called = <<"login">>
  /\ exit = "artist not found" => called = <<"login", "lookup">>
  /\ exit = "no submissions" => called = <<"login", "lookup", "page">>
  /\ "lookup" \in Range(called) => session_id # None
  /\ "page" \in Range(called) => user_id # None
  /\ "files" \in Range(called) => fetched # <<>> /\ exit # "no submissions"

C7_Witness ==
  pc = "done" /\ exit = "no submissions" /\ called = <<"login", "lookup", "page">>

\* C8 as stated: after a 200 answer without "sid" the login() call makes no
\* further POST and returns false.
C8_Original ==
  (pc \in {"login", "login_ret"} /\ \E i \in DOMAIN outcomes : outcomes[i] = "nosid")
    => /\ Last(outcomes) = "nosid"
       /\ \A i \in DOMAIN outcomes : outcomes[i] = "nosid" => i = Len(outcomes)
       /\ pc = "login_ret" /\ ~ret

\* C8 amended: after a 200 answer without "sid" login() sleeps nothing; the
\* answer uses up one of the 3 attempts and the next POST follows at once
\* while attempts remain; login() returns false only after 3 failed attempts.
C8_NoSleepOnMissingSid ==
  /\ (pc \in {"login", "login_ret"} /\ outcomes # <<>> /\ Last(outcomes) = "nosid")
       => /\ slept = NoSleep
          /\ Len(outcomes) < 3 => pc = "login"
          /\ Len(outcomes) = 3 => pc = "login_ret" /\ ~ret
  /\ (pc = "login_ret" /\ ~ret)
       => /\ Len(outcomes) = 3
          /\ \A i \in 1..3 : outcomes[i] \notin {"sid", "emptysid"}
          /\ session_id = None

C8_Witness ==
  pc = "login_ret" /\ outcomes = <<"nosid", "sid">> /\ ret /\ session_id = Sid

\* C9 as stated: a failed page request never ends the run while pages remain.
C9_Original ==
  [][(pc = "fetch_ret" /\ Failed(outcomes[1])) => pc' \notin {"done", "report"}]_vars

\* C9 amended: a failed file-metadata request or a failed download never ends
\* the run: the run goes on with the next file, submission and page.  A
\* failed page request counts as an empty page: for page 1 the run ends
\* ("no submissions"), for a later page the loop ends and the total so far
\* is reported.  Besides these a run ends only by login failure, user not
\* found, its final report, or an exception.
C9_Propagation ==
  [][/\ (pc = "dl_ret" /\ ~ret)
          => /\ pc' = "file" /\ todo' = Tail(todo) /\ sub_i' = sub_i
             /\ downloaded_count' = downloaded_count /\ exit' = exit
     /\ (pc = "subs" /\ outcomes' # <<>> /\ Failed(outcomes'[1]))
          => pc' = "file" /\ todo' = <<>> /\ exit' = exit
     /\ (pc = "file" /\ todo = <<>>)
          => /\ pc' = "subs" /\ sub_i' = sub_i + 1 /\ exit' = exit
             /\ total_downloads' = total_downloads + downloaded_count
     /\ (pc = "subs" /\ sub_i > Len(submissions) /\ page < total_pages)
          => pc' = "loop" /\ page' = page + 1 /\ exit' = exit
     /\ (pc = "fetch_ret" /\ Failed(outcomes[1]))
          => IF page = 1 THEN pc' = "done" /\ exit' = "no submissions"
                         ELSE pc' = "report" /\ exit' = exit
     /\ (pc' = "done" /\ pc # "done")
          => exit' \in {"login failed", "artist not found", "no submissions",
                        "completed"}]_vars

C9_Witness ==
  /\ pc = "done" /\ exit = "completed"
  /\ {"files", "download"} \subseteq failures
  /\ fetched = <<1, 2>> /\ submissions # <<>>
  /\ total_downloads > 0

\* C10 as stated: no 200 answer with an absent or malformed field makes an
\* exception leave get_user_id, get_user_submissions or process_submission.
C10_NoException ==
  exit \notin {"KeyError: user_id", "ValueError: int(pages_count)",
               "KeyError: submission_id"}

\* C11 as stated: every transport failure (connection failure, timeout) of
\* an attempt of login() or download_file() is caught and counted as an
\* attempt: the call goes on to its next attempt or returns a boolean, and
\* no exception leaves it.
C11_NoEscape ==
  [][(pc \in {"login", "dl_try"})
       => (/\ pc' \in {"login", "login_ret", "dl_try", "dl_ret"}
           /\ exit' = exit
           /\ (Failed(Last(outcomes')) => attempt' = attempt + 1))]_vars

Min(a, b) == IF a <= b THEN a ELSE b

\* The characters of t that are alphanumeric, space, hyphen or underscore, in
\* their order.
Stripped(t) == SelectSeq(t, LAMBDA c : c \in Alnum \cup {" ", "-", "_"})

\* C12: the file name handed to download_file is cleaned_title, "_" and the
\* original file name, cleaned_title being the first 50 of the title's
\* alphanumeric, space, hyphen and underscore characters in their order; an
\* absent title counts as "untitled", an absent file name as empty.  "Foo/Bar:
\* Baz!!" with "img.png" gives "FooBar Baz_img.png".
C12_FileName ==
  pc = "dl_enter"
    => LET t == IF "title" \in DOMAIN submissions[1] THEN submissions[1].title
                                                      ELSE Untitled
           f == IF "file_name" \in DOMAIN todo[1] THEN todo[1].file_name ELSE <<>>
           cleaned == [i \in 1..Min(Len(Stripped(t)), 50) |-> Stripped(t)[i]]
       IN /\ dl_name = cleaned \o <<"_">> \o f
          /\ (t = FooBarBaz /\ f = ImgPng)
               => dl_name = <<"F", "o", "o", "B", "a", "r", " ", "B", "a", "z", "_",
                              "i", "m", "g", ".", "p", "n", "g">>

C12_Witness ==
  /\ pc = "dl_enter"
  /\ submissions[1] = [submission_id |-> "1", title |-> FooBarBaz]
  /\ dl_name = <<"F", "o", "o", "B", "a", "r", " ", "B", "a", "z", "_",
                  "i", "m", "g", ".", "p", "n", "g">>

\* The retry delay: asyncio.sleep(self.retry_delay).
RetryDelay == Sleep("retry_delay", 5)

Quiet ==
  /\ total_downloads' = total_downloads /\ page' = page
  /\ fetched' = fetched /\ called' = called /\ fs' = fs

\* C14: a request for a page p > 1 that fails (transport error or non-200)
\* hands main an empty list; after an empty list for a page p > 1 main
\* leaves the loop: it requests no further page, processes no further
\* submission and reports the total it had, after which the run is over.
C14_EarlyStop ==
  [][/\ (pc = "fetch" /\ pc' = "fetch_ret" /\ Failed(outcomes'[1]))
          => submissions' = <<>>
     /\ (pc = "fetch_ret" /\ page > 1 /\ submissions = <<>>)
          => (pc' = "report" /\ exit' = exit /\ Quiet)
     /\ (pc = "report")
          => (pc' = "done" /\ exit' = "completed" /\ Quiet)
     /\ (pc = "done") => pc' = "construct"]_vars

C14_Witness ==
  /\ pc = "done" /\ exit = "completed"
  /\ total_pages = 3 /\ page = 2 /\ submissions = <<>>
  /\ fetched = <<1, 2>> /\ "page" \in failures
  /\ total_downloads > 0

\* asyncio.sleep(downloader.api_config.delay['between_pages'])
PagesDelay == Sleep("between_pages", delay.between_pages)

\* C15: when the last submission of page p is done, main sleeps
\* delay.between_pages once and goes on to page p + 1 if p < total_pages,
\* and sleeps nothing and leaves the loop if p = total_pages; nothing else
\* sleeps that delay; the request for a page > 1 follows that sleep with
\* only the loop test between them, and asks for the page after the last
\* one requested.
C15_BetweenPages ==
  [][/\ (pc = "subs") => page <= total_pages
     /\ (pc = "subs" /\ sub_i > Len(submissions))
          => IF page < total_pages
               THEN pc' = "loop" /\ page' = page + 1 /\ slept' = PagesDelay
               ELSE pc' = "report" /\ page' = page /\ slept' = NoSleep
     /\ (slept' = PagesDelay)
          => (pc = "subs" /\ sub_i > Len(submissions) /\ page < total_pages)
     /\ (pc' = "fetch" /\ page' > 1)
          => (/\ pc = "loop" /\ slept = PagesDelay
              /\ page' = page /\ Last(fetched) = page - 1)]_vars

C15_Witness ==
  /\ pc = "fetch_ret" /\ page = 2 /\ total_pages = 3
  /\ fetched = <<1, 2>> /\ submissions # <<>>
  /\ total_downloads > 0

\* asyncio.sleep(self.api_config.delay['between_files'])
FilesDelay == Sleep("between_files", delay.between_files)

\* The running total: main's total, and inside process_submission the count
\* of the submission in progress with it, a download_file call that has
\* just returned true included.
RunningTotal ==
  IF pc \in {"file", "dl_enter", "dl_try", "dl_ret"}
    THEN total_downloads + downloaded_count + (IF pc = "dl_ret" /\ ret THEN 1 ELSE 0)
    ELSE total_downloads

\* C16: as long as no exception has ended the run, the running total is the
\* number of download_file calls of the run that returned true, each of them
\* for a path that held no file when its file entry was reached; a file
\* entry skipped because its path exists and a download_file call that
\* returned false leave the count as it is and sleep nothing;
\* delay.between_files is slept once with each count, and by no other step.
C16_DownloadCount ==
  /\ [](pc # "raised" => RunningTotal = returned_true)
  /\ [](pc \in {"dl_enter", "dl_try", "dl_ret"} => fs0[dl_name] = Absent)
  /\ [][/\ (pc = "dl_ret" /\ ret)
             => (downloaded_count' = downloaded_count + 1 /\ slept' = FilesDelay)
        /\ (pc = "dl_ret" /\ ~ret)
             => (downloaded_count' = downloaded_count /\ slept' = NoSleep)
        /\ (pc = "file" /\ pc' = "file")
             => (/\ downloaded_count' = downloaded_count
                 /\ total_downloads' = total_downloads /\ slept' = NoSleep)
        /\ (slept' = FilesDelay) => (pc = "dl_ret" /\ ret)
        /\ (pc = "report") => total_downloads' = returned_true]_vars

C16_Witness ==
  /\ pc = "done" /\ exit = "completed"
  /\ total_downloads = 2 /\ returned_true = 2
  /\ "download" \in failures
  /\ \E n \in Names : fs0[n] # Absent

\* C17 as stated: within a run self.session_id is written at most once, by
\* the login() that returns true; user-lookup, page and file-metadata
\* requests are made only with the token that login() stored; and once
\* login() has accepted an answer, no call of the run raises "Not logged in".
C17_SessionPrecondition ==
  /\ [][(session_id' # session_id /\ pc' # "construct")
          => (pc = "login" /\ session_id = None /\ pc' = "login_ret" /\ ret')]_vars
  /\ [][(called' # called /\ pc \in {"lookup", "fetch", "subs"})
          => (session_id # None /\ session_id' = session_id)]_vars
  /\ [](exit # "ValueError: Not logged in")

\* C18 as stated: once validate_config has returned true and the
\* InkbunnyDownloader exists, every required field of api, credentials and
\* download is present and not empty, and both delay keys are present.
C18_Complete ==
  pc = "login"
    => /\ validate_config(config)
       /\ FullConfig \subseteq config
       /\ empty = {}

\* C19 as stated: on a disk that started empty, whatever the number of runs,
\* a file at a target path holds the whole body of a download_file call that
\* returned true; hence a download_file call that has returned false has
\* left no file at its path, and a path that process_submission finds
\* present and skips holds a whole body.
C19_OnlyCompleted ==
  /\ (pc = "dl_ret" /\ ~ret) => fs[dl_name] = Absent
  /\ (pc = "file" /\ todo # <<>> /\ Truthy(Url(Head(todo))))
       => fs[FileName(Title, Get(Head(todo), "file_name", <<>>))] # Partial

\* C20: every run that is started ends: by an abort, by its final report or
\* by a re-raised exception.  Inside the page loop page never exceeds
\* total_pages; page changes only at the end of a loop pass that goes on,
\* and then by 1, so the loop makes at most total_pages passes.
C20_Termination ==
  /\ (pc = "construct") ~> (pc \in {"done", "raised"})
  /\ [](pc \in {"subs", "file", "dl_enter", "dl_try", "dl_ret"}
          => (1 <= page /\ page <= total_pages))
  /\ []((pc \in {"fetch", "fetch_ret"} /\ page > 1) => page <= total_pages)
  /\ [][(page' # page /\ pc' # "construct")
          => (/\ page' = page + 1
              /\ (page = 0 => pc = "lookup_ret")
              /\ (page > 0 => (pc = "subs" /\ pc' = "loop")))]_vars
  /\ [][(pc = "subs" /\ pc' = "loop") => page' = page + 1]_vars

C20_Witness ==
  /\ pc = "done" /\ exit = "completed"
  /\ total_pages = 3 /\ page = 3 /\ fetched = <<1, 2, 3>>
====
